---- MODULE Spec2Model ----
(***************************************************************************)
(* A model of the LegalMind backend (src/app.py): the Document and         *)
(* HistoryEvent tables, the five HTTP routes, the text extractor and the   *)
(* model gateway.  Requests are served one at a time (threaded=False), so  *)
(* at most one /simplify request is in flight; its three database commits  *)
(* are separate steps, and the wall clock may advance between any two.     *)
(***************************************************************************)
EXTENDS Integers, Sequences, FiniteSets, TLC

\* ------------------------------------------------------------- bounds
\* No request is started that could push the history past MaxEvents rows.
MaxEvents == 4
\* datetime.utcnow() takes the values 0..MaxClock.
MaxClock == 1
Times == 0..MaxClock

\* ------------------------------------------------------------- values
\* Python's None and a present value, for the nullable columns and str | None.
None == <<>>
Some(v) == <<v>>

Filenames == {"a.pdf", "b.pdf"}

allowed_models == {"gemini-1.5-pro", "gemini-1.5-flash"}
DefaultModel == "gemini-1.5-flash"
\* The 'model' field of a request: absent, an allowed name, or another name.
Absent == "<absent>"
\* The 'model' form field of the uploads, and the 'model' key of the /ask bodies.
UploadModels == {"gemini-1.5-pro", "gpt-4"}
AskModels == {"gpt-4", Absent}

Statuses == {"Pending", "In Progress", "Analyzed", "Analysis Failed"}
EventTypes == {"UPLOAD_SUCCESS", "TEXT_EXTRACT_FAIL", "ANALYSIS_SUCCESS",
               "ANALYSIS_FAIL", "DELETE_DOCUMENT"}

\* What generate_content / send_message / response.text can do: return text,
\* raise a ValueError (response.text on a response without a valid part, a
\* JSON decode error), or raise any other exception (network, quota).
GenOutcomes == {"ok", "ValueError", "Exception"}
ResponseText == "<model reply>"

\* What the generation SDK does during one request: whether
\* genai.GenerativeModel(name) returns a handle, and what the generation call
\* on that handle does.
SdkBehaviours ==
    { [ctorOk |-> FALSE, gen |-> "ok"] } \cup
    { [ctorOk |-> TRUE, gen |-> g] : g \in GenOutcomes }

\* A PDF upload: whether PdfReader can read it, and each page's extract_text().
\* A text is a sequence of characters.
Pdfs ==
    { [readable |-> FALSE, pages |-> <<>>],
      [readable |-> TRUE,  pages |-> <<>>],
      [readable |-> TRUE,  pages |-> << <<>> >>],
      [readable |-> TRUE,  pages |-> << <<" ">>, <<>>, <<" ">> >>],
      [readable |-> TRUE,  pages |-> << <<" ">>, <<>>, <<"x">> >>] }

\* The JSON body of /ask: no body (or {}), or the set of keys it carries.
AskBodies ==
    { [keys |-> k, model |-> Absent] :
        k \in (SUBSET {"document_text", "question"}) \ {{"document_text", "question"}} }
    \cup { [keys |-> {"document_text", "question"}, model |-> m] : m \in AskModels }

\* An /ask request and what the SDK does while it is served (the SDK is not
\* reached when a key is missing).
AskRequests ==
    { r \in AskBodies \X SdkBehaviours :
        r[1].keys = {"document_text", "question"} \/ r[2] = [ctorOk |-> TRUE, gen |-> "ok"] }

VARIABLES
    documents,      \* Document table: id -> row
    history,        \* HistoryEvent table: the rows in id order (id = index)
    clock,          \* the last value datetime.utcnow() returned
    api_key,        \* whether GOOGLE_API_KEY is set in the environment
    pc,             \* position of the /simplify request in flight, or "idle"
    req,            \* the /simplify request being served
    calls,          \* calls the request being served made to the generation SDK
    resp,           \* the HTTP response about to be sent, if any
    statusChanges   \* every Document status change made so far, in order

vars == <<documents, history, clock, api_key, pc, req, calls, resp, statusChanges>>

\* ------------------------------------------------------------ helpers
Max(S) == CHOOSE x \in S : \A y \in S : y <= x

\* Integer primary key on SQLite: the next rowid is the largest one plus one.
NextId(rows) == IF DOMAIN rows = {} THEN 1 ELSE Max(DOMAIN rows) + 1

RECURSIVE JoinPages(_)
\* "".join(page.extract_text() for page in reader.pages if page.extract_text())
JoinPages(pages) ==
    IF pages = <<>> THEN <<>>
    ELSE (IF Head(pages) # <<>> THEN Head(pages) ELSE <<>>) \o JoinPages(Tail(pages))

extract_text_from_pdf(pdf) ==
    IF ~pdf.readable THEN None ELSE Some(JoinPages(pdf.pages))

RECURSIVE lstrip(_)
lstrip(s) == IF s # <<>> /\ Head(s) = " " THEN lstrip(Tail(s)) ELSE s

RECURSIVE rstrip(_)
rstrip(s) ==
    IF s # <<>> /\ s[Len(s)] = " " THEN rstrip(SubSeq(s, 1, Len(s) - 1)) ELSE s

\* str.strip()
strip(s) == rstrip(lstrip(s))

\* Faulty variant: whitespace-only text counts as extracted.
ExtractionFailed_NoStrip(text) ==
    text = None \/ text[1] = <<>>

\* not document_text or not document_text.strip()
ExtractionFailed(text) ==
    text = None \/ text[1] = <<>> \/ strip(text[1]) = <<>>

\* request.form.get('model', 'gemini-1.5-flash') / data.get('model', ...)
selected_model_name(m) == IF m = Absent THEN DefaultModel ELSE m

\* Faulty variant: the fallback is 'gemini-1.5-pro'.
ResolveModel_ProFallback(model_name) ==
    IF model_name \notin allowed_models THEN "gemini-1.5-pro" ELSE model_name

\* The allow-list check of get_gemini_model.
ResolveModel(model_name) ==
    IF model_name \notin allowed_models THEN "gemini-1.5-flash" ELSE model_name

\* get_gemini_model: the handle's model name, or the ValueError raised; with
\* the calls made to the SDK.  ctorOk: genai.GenerativeModel does not raise.
get_gemini_model(model_name, key, ctorOk) ==
    IF ~key
    THEN [raised |-> TRUE, calls |-> <<>>, model |-> "",
          exc |-> [type |-> "ValueError",
                   msg |-> <<"GOOGLE_API_KEY is not set. Cannot initialize Gemini model.">>]]
    ELSE LET name == ResolveModel(model_name)
             call == [fn |-> "GenerativeModel", model |-> name,
                      result |-> IF ctorOk THEN "ok" ELSE "Exception"]
         IN IF ctorOk
            THEN [raised |-> FALSE, calls |-> <<call>>, model |-> name,
                  exc |-> [type |-> "", msg |-> <<>>]]
            ELSE [raised |-> TRUE, calls |-> <<call>>, model |-> "",
                  exc |-> [type |-> "ValueError",
                           msg |-> <<"Failed to initialize Gemini model '", name,
                                     "'. Ensure API key is valid and model exists: ",
                                     "<sdk error>">>]]

\* The try block of both handlers: the gateway, then the generation call.
\* fn is generate_content or send_message.
TryGenerate(fn, model_name, key, ctorOk, gen) ==
    LET g == get_gemini_model(model_name, key, ctorOk)
    IN IF g.raised
       THEN [raised |-> TRUE, exc |-> g.exc, calls |-> g.calls, text |-> ""]
       ELSE LET call == [fn |-> fn, model |-> g.model, result |-> gen]
            IN IF gen = "ok"
               THEN [raised |-> FALSE, exc |-> [type |-> "", msg |-> <<>>],
                     calls |-> g.calls \o <<call>>, text |-> ResponseText]
               ELSE [raised |-> TRUE,
                     exc |-> [type |-> gen, msg |-> <<"<sdk ", gen, ">">>],
                     calls |-> g.calls \o <<call>>, text |-> ""]

\* Faulty variant: the new event replaces the document's earlier events.
log_event_Replacing(h, event_type, document_name, now) ==
    LET Other(e) == e.document_name # document_name
    IN Append(SelectSeq(h, Other),
              [event_type |-> event_type, document_name |-> document_name,
               timestamp |-> now])

\* log_event: one more HistoryEvent row, timestamp defaulting to utcnow().
log_event(h, event_type, document_name, now) ==
    Append(h, [event_type |-> event_type, document_name |-> document_name,
               timestamp |-> now])

Response(route, code, error, data) ==
    [route |-> route, code |-> code, error |-> error, data |-> data]

\* No response is waiting to be sent.
NoResponse == Response("", 0, None, <<>>)

NoRequest == [filename |-> "", model |-> "", doc_id |-> 0, first_event |-> 0]

\* ---------------------------------------------------------------- Init
Init ==
    /\ documents = <<>>
    /\ history = <<>>
    /\ clock = 0
    /\ api_key \in BOOLEAN
    /\ pc = "idle"
    /\ req = NoRequest
    /\ calls = <<>>
    /\ resp = NoResponse
    /\ statusChanges = <<>>

\* datetime.utcnow(): the last value returned, or the next one (the unit of
\* time is the longest wait between two reads).
utcnow(last) == {t \in Times : last <= t /\ t <= last + 1}

\* Ids a DELETE request may name: every id a row can have, and one more.
DocIds == 1..((MaxEvents \div 2) + 1)

\* Faulty variant: the status argument is dropped, the column default applies.
Document_DefaultStatus(filename, status, summary, full_text, model_used, now) ==
    [filename |-> filename, upload_date |-> now, status |-> "Pending",
     summary |-> summary, full_text |-> full_text, model_used |-> model_used]

\* A new Document row (upload_date defaulting to utcnow()).
Document(filename, status, summary, full_text, model_used, now) ==
    [filename |-> filename, upload_date |-> now, status |-> status,
     summary |-> summary, full_text |-> full_text, model_used |-> model_used]

\* db.session.add(doc); db.session.commit()
AddDocument(docs, doc) == docs @@ (NextId(docs) :> doc)

\* Faulty variant: the update addresses the rows by filename.
SetAnalysis_ByFilename(docs, id, status, summary) ==
    [d \in DOMAIN docs |->
        IF docs[d].filename = docs[id].filename
        THEN [docs[d] EXCEPT !.status = status, !.summary = summary]
        ELSE docs[d]]

\* new_doc.status = ...; new_doc.summary = ...; commit: the row of that id.
SetAnalysis(docs, id, status, summary) ==
    [docs EXCEPT ![id].status = status, ![id].summary = summary]

\* Faulty variant: the delete is never committed.
RemoveDocument_NotCommitted(docs, id) == docs

\* db.session.delete(doc); db.session.commit()
RemoveDocument(docs, id) == [d \in DOMAIN docs \ {id} |-> docs[d]]

RECURSIVE ChangesOf(_, _, _)
\* The status changes that turn table old into table new, over the ids S in
\* id order: a row created ("" -> status), re-statused, or deleted (-> "").
ChangesOf(S, old, new) ==
    IF S = {} THEN <<>>
    ELSE LET d == CHOOSE x \in S : \A y \in S : x <= y
             was == IF d \in DOMAIN old THEN old[d].status ELSE ""
             is == IF d \in DOMAIN new THEN new[d].status ELSE ""
             name == IF d \in DOMAIN new THEN new[d].filename ELSE old[d].filename
         IN (IF was = is THEN <<>>
             ELSE << [doc_id |-> d, filename |-> name, from |-> was, to |-> is] >>)
            \o ChangesOf(S \ {d}, old, new)

\* What a commit adds to the record of status changes.
Observe(seen, old, new) ==
    seen \o ChangesOf(DOMAIN old \cup DOMAIN new, old, new)

\* The server takes the next request: single-threaded (threaded=False), it
\* has sent the response to the one before.
Accepting == pc = "idle" /\ resp = NoResponse

\* return jsonify(...): the response is sent, and the request is over.
send_response ==
    /\ pc = "idle"
    /\ resp # NoResponse
    /\ resp' = NoResponse
    /\ req' = NoRequest
    /\ calls' = <<>>
    /\ UNCHANGED <<documents, history, clock, api_key, pc, statusChanges>>

\* -------------------------------------------------------- POST /simplify
\* 'pdfFile' not in request.files
simplify_no_file ==
    /\ Accepting
    /\ resp' = Response("simplify", 400, Some(<<"No PDF file provided.">>), <<>>)
    /\ req' = NoRequest
    /\ calls' = <<>>
    /\ UNCHANGED <<documents, history, clock, api_key, pc, statusChanges>>

\* not pdf_file.filename
simplify_no_filename ==
    /\ Accepting
    /\ resp' = Response("simplify", 400, Some(<<"No selected file.">>), <<>>)
    /\ req' = NoRequest
    /\ calls' = <<>>
    /\ UNCHANGED <<documents, history, clock, api_key, pc, statusChanges>>

\* A named file: the model name is read and UPLOAD_SUCCESS is logged.
simplify_upload(filename, model, now) ==
    /\ Accepting
    /\ Len(history) + 2 <= MaxEvents
    /\ now \in utcnow(clock)
    /\ clock' = now
    /\ history' = log_event(history, "UPLOAD_SUCCESS", filename, now)
    /\ req' = [filename |-> filename, model |-> selected_model_name(model),
               doc_id |-> 0, first_event |-> Len(history) + 1]
    /\ calls' = <<>>
    /\ pc' = "extract"
    /\ UNCHANGED <<documents, api_key, resp, statusChanges>>

\* The text is extracted and the Document row is written: in 'Analysis Failed'
\* with TEXT_EXTRACT_FAIL and a 400, or in 'In Progress'.
simplify_extract(pdf, now, later) ==
    /\ pc = "extract"
    /\ now \in utcnow(clock)
    /\ LET document_text == extract_text_from_pdf(pdf)
       IN IF ExtractionFailed(document_text)
          THEN /\ documents' = AddDocument(documents,
                      Document(req.filename, "Analysis Failed",
                               Some(<<"Could not extract text from PDF.">>),
                               None, req.model, now))
               /\ later \in utcnow(now)
               /\ clock' = later
               /\ history' = log_event(history, "TEXT_EXTRACT_FAIL", req.filename, later)
               /\ resp' = Response("simplify", 400,
                                   Some(<<"Could not extract text from the PDF.">>), <<>>)
               /\ pc' = "idle"
          ELSE /\ documents' = AddDocument(documents,
                      Document(req.filename, "In Progress", None,
                               document_text, req.model, now))
               /\ later = now
               /\ clock' = now
               /\ pc' = "analyze"
               /\ UNCHANGED <<history, resp>>
    /\ req' = [req EXCEPT !.doc_id = NextId(documents)]
    /\ statusChanges' = Observe(statusChanges, documents, documents')
    /\ UNCHANGED <<api_key, calls>>

\* Faulty variant: the generic handler does not set the status.
AnalysisResult_StatusNotSet(r, document_text) ==
    IF ~r.raised
    THEN [status |-> "Analyzed", summary |-> Some(<<r.text>>),
          event_type |-> "ANALYSIS_SUCCESS",
          resp |-> Response("simplify", 200, None, <<Some(<<r.text>>), document_text>>)]
    ELSE IF r.exc.type = "ValueError"
    THEN [status |-> "Analysis Failed", summary |-> Some(<<"API Error: ">> \o r.exc.msg),
          event_type |-> "ANALYSIS_FAIL",
          resp |-> Response("simplify", 500,
                            Some(<<"AI model configuration error: ">> \o r.exc.msg), <<>>)]
    ELSE [status |-> "In Progress", summary |-> Some(<<"Analysis failed: ">> \o r.exc.msg),
          event_type |-> "ANALYSIS_FAIL",
          resp |-> Response("simplify", 500,
                            Some(<<"Failed to get a response from the AI model. Check server logs for details.">>),
                            <<>>)]

\* The three ends of the try block, given what it returned or raised (r) and
\* the extracted text: the row's status and summary, the event, the response.
AnalysisResult(r, document_text) ==
    IF ~r.raised
    THEN [status |-> "Analyzed", summary |-> Some(<<r.text>>),
          event_type |-> "ANALYSIS_SUCCESS",
          resp |-> Response("simplify", 200, None, <<Some(<<r.text>>), document_text>>)]
    ELSE IF r.exc.type = "ValueError"
    THEN [status |-> "Analysis Failed", summary |-> Some(<<"API Error: ">> \o r.exc.msg),
          event_type |-> "ANALYSIS_FAIL",
          resp |-> Response("simplify", 500,
                            Some(<<"AI model configuration error: ">> \o r.exc.msg), <<>>)]
    ELSE [status |-> "Analysis Failed", summary |-> Some(<<"Analysis failed: ">> \o r.exc.msg),
          event_type |-> "ANALYSIS_FAIL",
          resp |-> Response("simplify", 500,
                            Some(<<"Failed to get a response from the AI model. Check server logs for details.">>),
                            <<>>)]

\* The try block: gateway and generation call, then the row's final status,
\* the terminal event (whose commit also writes the row) and the response.
simplify_analyze(sdk, now) ==
    /\ pc = "analyze"
    /\ now \in utcnow(clock)
    /\ clock' = now
    /\ LET r == TryGenerate("generate_content", req.model, api_key, sdk.ctorOk, sdk.gen)
           id == req.doc_id
           a == AnalysisResult(r, documents[id].full_text)
       IN /\ calls' = r.calls
          /\ documents' = SetAnalysis(documents, id, a.status, a.summary)
          /\ history' = log_event(history, a.event_type, documents[id].filename, now)
          /\ resp' = a.resp
    /\ statusChanges' = Observe(statusChanges, documents, documents')
    /\ pc' = "idle"
    /\ UNCHANGED <<api_key, req>>

\* ------------------------------------------------------------- POST /ask
\* The response of /ask and the SDK calls made for it.
AskResult(data, key, sdk) ==
    IF data.keys # {"document_text", "question"}
    THEN [calls |-> <<>>,
          resp |-> Response("ask", 400,
                            Some(<<"Missing document_text or question in request.">>), <<>>)]
    ELSE LET r == TryGenerate("send_message", selected_model_name(data.model),
                              key, sdk.ctorOk, sdk.gen)
         IN [calls |-> r.calls,
             resp |-> IF ~r.raised
                      THEN Response("ask", 200, None, <<r.text>>)
                      ELSE IF r.exc.type = "ValueError"
                      THEN Response("ask", 500,
                             Some(<<"AI model configuration error for chat: ">> \o r.exc.msg), <<>>)
                      ELSE Response("ask", 500,
                             Some(<<"Failed to get a response for your question. Check server logs for details.">>),
                             <<>>)]

\* Faulty variant: a failed question is logged as an analysis failure.
ask_question_Logging(data, sdk) ==
    /\ Accepting
    /\ LET a == AskResult(data, api_key, sdk)
       IN /\ resp' = a.resp
          /\ calls' = a.calls
          /\ history' = IF a.resp.code = 500 /\ Len(history) < MaxEvents
                        THEN log_event(history, "ANALYSIS_FAIL", "", clock)
                        ELSE history
    /\ req' = NoRequest
    /\ UNCHANGED <<documents, clock, api_key, pc, statusChanges>>

ask_question(data, sdk) ==
    /\ Accepting
    /\ LET a == AskResult(data, api_key, sdk)
       IN /\ resp' = a.resp
          /\ calls' = a.calls
    /\ req' = NoRequest
    /\ UNCHANGED <<documents, history, clock, api_key, pc, statusChanges>>

\* ------------------------------------------------ GET /documents, /history
\* strftime('%b %d, %Y'): the day of a timestamp (two clock values a day).
strftime_day(t) == t \div 2

\* strftime('%b %d, %Y, %I:%M %p'): the minute of a timestamp (one clock value a minute).
strftime_minute(t) == t

\* Document.to_dict
Document_to_dict(docs, id) ==
    [id |-> id, filename |-> docs[id].filename,
     upload_date |-> strftime_day(docs[id].upload_date),
     status |-> docs[id].status, summary |-> docs[id].summary,
     full_text |-> docs[id].full_text, model_used |-> docs[id].model_used]

\* HistoryEvent.to_dict
HistoryEvent_to_dict(h, id) ==
    [id |-> id, event_type |-> h[id].event_type,
     document_name |-> h[id].document_name,
     timestamp |-> strftime_minute(h[id].timestamp)]

\* The order SQLite gives rows with equal ORDER BY keys is unspecified: rows
\* come in rowid order, or in reverse (PRAGMA reverse_unordered_selects).
TieOrders == {"rowid ascending", "rowid descending"}

RECURSIVE OrderByAsc(_, _, _)
\* Faulty variant: ORDER BY key ASC.
OrderByAsc(S, key, ties) ==
    IF S = {} THEN <<>>
    ELSE LET low == {y \in S : \A z \in S : key[y] <= key[z]}
             x == IF ties = "rowid ascending"
                  THEN CHOOSE y \in low : \A z \in low : y <= z
                  ELSE CHOOSE y \in low : \A z \in low : z <= y
         IN <<x>> \o OrderByAsc(S \ {x}, key, ties)

RECURSIVE OrderByDesc(_, _, _)
\* ORDER BY key DESC over the rows with ids S: the ids, largest key first.
OrderByDesc(S, key, ties) ==
    IF S = {} THEN <<>>
    ELSE LET top == {y \in S : \A z \in S : key[z] <= key[y]}
             x == IF ties = "rowid ascending"
                  THEN CHOOSE y \in top : \A z \in top : y <= z
                  ELSE CHOOSE y \in top : \A z \in top : z <= y
         IN <<x>> \o OrderByDesc(S \ {x}, key, ties)

get_documents ==
    /\ Accepting
    /\ \E ties \in TieOrders :
         LET order == OrderByDesc(DOMAIN documents,
                          [d \in DOMAIN documents |-> documents[d].upload_date], ties)
         IN resp' = Response("documents", 200, None,
                       [i \in 1..Len(order) |-> Document_to_dict(documents, order[i])])
    /\ req' = NoRequest
    /\ calls' = <<>>
    /\ UNCHANGED <<documents, history, clock, api_key, pc, statusChanges>>

get_history ==
    /\ Accepting
    /\ \E ties \in TieOrders :
         LET order == OrderByDesc(DOMAIN history,
                          [e \in DOMAIN history |-> history[e].timestamp], ties)
         IN resp' = Response("history", 200, None,
                       [i \in 1..Len(order) |-> HistoryEvent_to_dict(history, order[i])])
    /\ req' = NoRequest
    /\ calls' = <<>>
    /\ UNCHANGED <<documents, history, clock, api_key, pc, statusChanges>>

\* -------------------------------------------------- DELETE /document/<id>
delete_document(doc_id, now) ==
    /\ Accepting
    /\ IF doc_id \notin DOMAIN documents
       THEN /\ resp' = Response("delete", 404, Some(<<"Not Found">>), <<>>)
            /\ now = clock
            /\ UNCHANGED <<documents, history, clock>>
       ELSE /\ Len(history) + 1 <= MaxEvents
            /\ now \in utcnow(clock)
            /\ clock' = now
            /\ documents' = RemoveDocument(documents, doc_id)
            /\ history' = log_event(history, "DELETE_DOCUMENT",
                                    documents[doc_id].filename, now)
            /\ resp' = Response("delete", 200, None, <<"Document deleted successfully.">>)
    /\ statusChanges' = Observe(statusChanges, documents, documents')
    /\ req' = NoRequest
    /\ calls' = <<>>
    /\ UNCHANGED <<api_key, pc>>

\* ------------------------------------------------------------------ Next
Next ==
    \/ simplify_no_file
    \/ simplify_no_filename
    \/ \E filename \in Filenames, model \in UploadModels, now \in Times :
           simplify_upload(filename, model, now)
    \/ \E pdf \in Pdfs, now \in Times, later \in Times : simplify_extract(pdf, now, later)
    \/ \E sdk \in SdkBehaviours, now \in Times : simplify_analyze(sdk, now)
    \/ \E r \in AskRequests : ask_question(r[1], r[2])
    \/ get_documents
    \/ get_history
    \/ \E doc_id \in DocIds, now \in Times : delete_document(doc_id, now)
    \/ send_response

Spec == Init /\ [][Next]_vars

\* ================================================================ claims
Terminal == {"Analyzed", "Analysis Failed"}

IsPrefix(s, t) == Len(s) <= Len(t) /\ SubSeq(t, 1, Len(s)) = s

\* The events the /simplify request in flight or just served has logged.
RequestEvents == SubSeq(history, req.first_event, Len(history))

\* A /simplify request whose PDF gave text has just completed.
AnalysisCompleted ==
    /\ pc = "idle"
    /\ req.doc_id # 0
    /\ resp.route = "simplify"
    /\ resp.code # 400

\* C1: when a /simplify request whose PDF yields non-blank text completes, its
\* Document row exists with status 'Analyzed' or 'Analysis Failed', and the
\* request logged exactly one terminal event: ANALYSIS_SUCCESS iff the status
\* is 'Analyzed', ANALYSIS_FAIL iff it is 'Analysis Failed'.
C1_AnalysisEndsTerminal ==
    AnalysisCompleted =>
        /\ req.doc_id \in DOMAIN documents
        /\ documents[req.doc_id].filename = req.filename
        /\ documents[req.doc_id].status \in Terminal
        /\ LET ends == {i \in DOMAIN RequestEvents :
                          RequestEvents[i].event_type \in {"ANALYSIS_SUCCESS", "ANALYSIS_FAIL"}}
           IN /\ Cardinality(ends) = 1
              /\ \A i \in ends :
                   /\ RequestEvents[i].document_name = req.filename
                   /\ RequestEvents[i].event_type = "ANALYSIS_SUCCESS"
                        <=> documents[req.doc_id].status = "Analyzed"
                   /\ RequestEvents[i].event_type = "ANALYSIS_FAIL"
                        <=> documents[req.doc_id].status = "Analysis Failed"

\* A request whose generation call raised a non-ValueError has completed.
C1_Witness ==
    /\ AnalysisCompleted
    /\ Len(calls) = 2
    /\ calls[2].result = "Exception"
    /\ documents[req.doc_id].status = "Analysis Failed"

\* A PDF whose extraction raises or yields only blank text.
PdfUnextractable(pdf) ==
    \/ ~pdf.readable
    \/ \A i \in DOMAIN pdf.pages : \A j \in DOMAIN pdf.pages[i] : pdf.pages[i][j] = " "

\* C2: a /simplify request with a named file whose extraction raises or yields
\* empty or whitespace-only text is answered 400, stores exactly one Document,
\* in 'Analysis Failed' with summary 'Could not extract text from PDF.', logs
\* TEXT_EXTRACT_FAIL, and never reaches the gateway or the generation call.
C2_ExtractionFailure ==
    [][\A pdf \in Pdfs, now \in Times, later \in Times :
         (pc = "extract" /\ PdfUnextractable(pdf) /\ simplify_extract(pdf, now, later)) =>
            /\ pc' = "idle"
            /\ resp'.route = "simplify" /\ resp'.code = 400
            /\ \E id \in DOMAIN documents' \ DOMAIN documents :
                 /\ DOMAIN documents' = DOMAIN documents \cup {id}
                 /\ \A d \in DOMAIN documents : documents'[d] = documents[d]
                 /\ documents'[id].filename = req.filename
                 /\ documents'[id].status = "Analysis Failed"
                 /\ documents'[id].summary = Some(<<"Could not extract text from PDF.">>)
            /\ Len(history') = Len(history) + 1
            /\ IsPrefix(history, history')
            /\ history'[Len(history')].event_type = "TEXT_EXTRACT_FAIL"
            /\ history'[Len(history')].document_name = req.filename
            /\ calls' = <<>>
            /\ \A i \in req.first_event..Len(history') :
                 history'[i].event_type \notin {"ANALYSIS_SUCCESS", "ANALYSIS_FAIL"}
      ]_vars

\* An upload whose text could not be extracted has been answered.
C2_Witness ==
    /\ pc = "idle"
    /\ req.doc_id \in DOMAIN documents
    /\ resp.code = 400
    /\ documents[req.doc_id].summary = Some(<<"Could not extract text from PDF.">>)
    /\ history[Len(history)].event_type = "TEXT_EXTRACT_FAIL"

\* The ids GET /documents has just returned.
ListedIds == {resp.data[i].id : i \in DOMAIN resp.data}

ListedTimes ==
    IF resp.route = "documents"
    THEN [i \in DOMAIN resp.data |-> documents[resp.data[i].id].upload_date]
    ELSE IF resp.route = "history"
    THEN [i \in DOMAIN resp.data |-> history[resp.data[i].id].timestamp]
    ELSE <<>>

\* C5 as claimed: the arrays of GET /documents and GET /history are ordered
\* strictly descending by timestamp.
C5_StrictlyDescending ==
    \A i \in 1..(Len(ListedTimes) - 1) : ListedTimes[i] > ListedTimes[i + 1]

\* C5 as amended: the arrays of GET /documents and GET /history hold every
\* stored row once, ordered descending by timestamp, rows with equal
\* timestamps in either order.
C5_Descending ==
    /\ \A i \in 1..(Len(ListedTimes) - 1) : ListedTimes[i] >= ListedTimes[i + 1]
    /\ resp.route = "documents" =>
         /\ ListedIds = DOMAIN documents
         /\ Len(resp.data) = Cardinality(DOMAIN documents)
         /\ \A i \in 1..(Len(resp.data) - 1) :
              resp.data[i].upload_date >= resp.data[i + 1].upload_date
    /\ resp.route = "history" =>
         /\ ListedIds = DOMAIN history
         /\ Len(resp.data) = Len(history)
         /\ \A i \in 1..(Len(resp.data) - 1) :
              resp.data[i].timestamp >= resp.data[i + 1].timestamp

\* A listing of rows with different timestamps, the newer row first.
C5_Witness ==
    /\ resp.route \in {"documents", "history"}
    /\ \E i \in 1..(Len(ListedTimes) - 1) : ListedTimes[i] > ListedTimes[i + 1]
    /\ \E i \in 1..(Len(ListedTimes) - 1) : ListedTimes[i] = ListedTimes[i + 1]

Flash == "gemini-1.5-flash"

GenerationFailed ==
    /\ calls # <<>>
    /\ calls[Len(calls)].fn \in {"generate_content", "send_message"}
    /\ calls[Len(calls)].result # "ok"

\* The request failed before the generation call: no credential, or the
\* model handle could not be built.
ConfigurationFailed ==
    \/ calls = <<>>
    \/ calls[Len(calls)].fn = "GenerativeModel" /\ calls[Len(calls)].result # "ok"

IsConfigurationMessage(error) ==
    /\ error # None
    /\ error[1][1] \in {"AI model configuration error: ",
                        "AI model configuration error for chat: "}

IsGenericMessage(error) ==
    /\ error # None
    /\ error[1][1] \in
         {"Failed to get a response from the AI model. Check server logs for details.",
          "Failed to get a response for your question. Check server logs for details."}

\* C7: in /simplify and /ask a configuration error (missing credential, model
\* handle construction raising) yields 500 with the 'AI model configuration
\* error' message, and a failure of the generation call, whatever it raises,
\* yields 500 with the generic 'Failed to get a response' message and never
\* the configuration-error message.
C7_ErrorKindsDistinct ==
    (pc = "idle" /\ resp.route \in {"simplify", "ask"} /\ resp.code = 500) =>
        /\ ConfigurationFailed => IsConfigurationMessage(resp.error)
        /\ GenerationFailed =>
             /\ IsGenericMessage(resp.error)
             /\ ~IsConfigurationMessage(resp.error)

\* The event that records a status change.
EventOf(change) ==
    IF change.from = "" /\ change.to = "In Progress" THEN "UPLOAD_SUCCESS"
    ELSE IF change.from = "" /\ change.to = "Analysis Failed" THEN "TEXT_EXTRACT_FAIL"
    ELSE IF change.from = "In Progress" /\ change.to = "Analyzed" THEN "ANALYSIS_SUCCESS"
    ELSE IF change.from = "In Progress" /\ change.to = "Analysis Failed" THEN "ANALYSIS_FAIL"
    ELSE IF change.from # "" /\ change.to = "" THEN "DELETE_DOCUMENT"
    ELSE "<none>"

\* Events h and status changes c correspond one to one, in order.
Corresponds(h, c) ==
    /\ Len(h) = Len(c)
    /\ \A i \in DOMAIN h :
         /\ h[i].event_type = EventOf(c[i])
         /\ h[i].document_name = c[i].filename

RECURSIVE WithoutFailedUploads(_)
\* The history without the UPLOAD_SUCCESS of the requests whose text
\* extraction failed (the event right before their TEXT_EXTRACT_FAIL).
WithoutFailedUploads(h) ==
    IF h = <<>> THEN <<>>
    ELSE IF /\ Len(h) >= 2
            /\ h[1].event_type = "UPLOAD_SUCCESS"
            /\ h[2].event_type = "TEXT_EXTRACT_FAIL"
    THEN WithoutFailedUploads(Tail(h))
    ELSE <<Head(h)>> \o WithoutFailedUploads(Tail(h))

OneStatusEach == \A d \in DOMAIN documents : documents[d].status \in Statuses

\* C8 as claimed: between requests, the Document status changes and the
\* logged events correspond one to one, and every stored Document has exactly
\* one of the four statuses.
C8_OneEventPerChange ==
    /\ OneStatusEach
    /\ pc = "idle" => Corresponds(history, statusChanges)

\* C8 as amended: between requests, every Document status change corresponds
\* to exactly one logged event, and every logged event other than the
\* UPLOAD_SUCCESS of a request whose text extraction failed corresponds to one
\* status change; every stored Document has exactly one of the four statuses.
C8_OneEventPerChangeButFailedUploads ==
    /\ OneStatusEach
    /\ pc = "idle" => Corresponds(WithoutFailedUploads(history), statusChanges)

\* One upload failed extraction and another was analysed.
C8_Witness ==
    /\ pc = "idle"
    /\ \E i \in DOMAIN history : history[i].event_type = "TEXT_EXTRACT_FAIL"
    /\ \E i \in DOMAIN history : history[i].event_type = "ANALYSIS_SUCCESS"
    /\ Len(statusChanges) = 3

\* C9: a Document is created 'In Progress' or 'Analysis Failed'; from
\* 'In Progress' it moves only to 'Analyzed' or 'Analysis Failed', within the
\* request that created it; once 'Analyzed' or 'Analysis Failed' no request
\* changes any of its fields, and only DELETE /document/<id> removes it.
C9_Lifecycle ==
    /\ [](\A d \in DOMAIN documents :
            /\ documents[d].status \in {"In Progress", "Analyzed", "Analysis Failed"}
            /\ documents[d].status = "In Progress" => (pc = "analyze" /\ d = req.doc_id))
    /\ [][/\ \A d \in DOMAIN documents' \ DOMAIN documents :
               documents'[d].status \in {"In Progress", "Analysis Failed"}
          /\ \A d \in DOMAIN documents \cap DOMAIN documents' :
               /\ documents[d].status \in Terminal => documents'[d] = documents[d]
               /\ documents[d].status = "In Progress" =>
                    /\ documents'[d].status \in {"In Progress", "Analyzed", "Analysis Failed"}
                    /\ documents'[d].filename = documents[d].filename
                    /\ documents'[d].full_text = documents[d].full_text
                    /\ documents'[d].model_used = documents[d].model_used
                    /\ documents'[d].upload_date = documents[d].upload_date
          /\ \A d \in DOMAIN documents \ DOMAIN documents' :
               /\ resp'.route = "delete" /\ resp'.code = 200
               /\ DOMAIN documents' = DOMAIN documents \ {d}
         ]_vars

\* A second upload is being analysed while an analysed Document is stored.
C9_Witness ==
    /\ pc = "analyze"
    /\ \E d \in DOMAIN documents : d # req.doc_id /\ documents[d].status = "Analyzed"

\* C10: no request modifies or removes a HistoryEvent; a /simplify request
\* with a named file logs UPLOAD_SUCCESS first, before its Document row is
\* written and before its TEXT_EXTRACT_FAIL, ANALYSIS_SUCCESS or ANALYSIS_FAIL;
\* a /simplify request with no file or an empty filename returns 400 and logs
\* nothing.
C10_HistoryAppendOnly ==
    /\ [](req # NoRequest =>
            /\ req.first_event \in DOMAIN history
            /\ history[req.first_event].event_type = "UPLOAD_SUCCESS"
            /\ history[req.first_event].document_name = req.filename
            /\ \A i \in (req.first_event + 1)..Len(history) :
                 /\ history[i].event_type \in
                      {"TEXT_EXTRACT_FAIL", "ANALYSIS_SUCCESS", "ANALYSIS_FAIL"}
                 /\ history[i].document_name = req.filename
            /\ pc = "extract" => (Len(history) = req.first_event /\ req.doc_id = 0))
    /\ [][/\ IsPrefix(history, history')
          /\ (simplify_no_file \/ simplify_no_filename) =>
               (history' = history /\ documents' = documents /\ resp'.code = 400)
          /\ \A filename \in Filenames, model \in UploadModels, now \in Times :
               (pc' = "extract" /\ simplify_upload(filename, model, now)) =>
                  /\ Len(history') = Len(history) + 1
                  /\ history'[Len(history')].event_type = "UPLOAD_SUCCESS"
                  /\ history'[Len(history')].document_name = filename
                  /\ documents' = documents
          /\ \A d \in DOMAIN documents' \ DOMAIN documents :
               /\ pc = "extract"
               /\ history[req.first_event].event_type = "UPLOAD_SUCCESS"
               /\ history[req.first_event].document_name = documents'[d].filename
         ]_vars

\* A second upload was logged after the events of a first, its row not yet
\* written.
C10_Witness ==
    /\ pc = "extract"
    /\ req.doc_id = 0
    /\ req.first_event = 3
    /\ history[2].event_type = "TEXT_EXTRACT_FAIL"

====
